---- MODULE Spec2Model ----
(***************************************************************************)
(* Paginated conversation / message feeds of the WhatsApp mobile client.   *)
(*                                                                         *)
(* Two screens are modelled, each with the requests it has in flight:      *)
(*   - ConversationListScreen, which keeps its feed in the global zustand  *)
(*     chat store (chat.store.ts) and its pagination state in local React  *)
(*     state;                                                              *)
(*   - ConversationDetailScreen, which keeps the message feed, pagination  *)
(*     state and the highlight resolver in local React state.              *)
(* The two screens share no state (the detail screen never touches the     *)
(* store), so a behaviour follows one of them: `screen` says which.        *)
(*                                                                         *)
(* Execution model: JavaScript is single threaded and the only suspension  *)
(* points are the awaited network calls.  One action is therefore one      *)
(* event (a user event, a navigation event, a timer, or the continuation   *)
(* of an awaited fetch) together with the state updates it batches, the    *)
(* re-render, and every effect that re-render runs, until the component    *)
(* is settled again.                                                       *)
(***************************************************************************)
EXTENDS Integers, Sequences, FiniteSets, TLC

(***************************************************************************)
(* Bounds of the model.                                                    *)
(***************************************************************************)
NumConvIds == 2     \* conversation ids 1..NumConvIds
MaxPageLen == 2     \* longest conversation page the server returns
NumCursors == 1     \* distinct cursor tokens per area
MaxNavs    == 1     \* area switches and re-mounts of the list screen
NumPages   == 3     \* pages of the conversation's message history
PageLen    == 2     \* messages per page of that history
MaxTextLen == 2     \* longest text typed into the composer
MaxSends   == 2     \* sendMessage calls in flight at once
MaxCalls   == 2     \* requests through the shared axios instance in flight at once
MaxFeedLen == 3     \* longest message feed handed to renderMessage
MaxSearches == 2    \* searchConversations calls in flight at once
MaxThreadLen == 1   \* longest message list the store keeps for a conversation
MaxSockets == 3     \* sockets that connectSocket creates

VARIABLES
    screen,      \* "list" | "detail" | "composer": the component the behaviour follows
    env,         \* environment: navigation budget, wire order of a page
    store,       \* useChatStore: [conversations]
    list,        \* ConversationListScreen: local state and refs
    fetches,     \* fetchConversations calls in flight
    detail,      \* ConversationDetailScreen: local state and refs
    msgFetches,  \* fetchConversationMessages calls in flight
    hist,        \* history of the detail screen's visit
    composer,    \* MessageComposer: local state
    sends,       \* sendMessage calls in flight
    auth,        \* useAuthStore and the token persisted in AsyncStorage
    dash,        \* DashboardScreen: local state and its handleLogout call
    calls,       \* requests through the shared axios instance in flight
    rendering,   \* the message FlatList: its data and the bubbles rendered so far
    search,      \* ConversationListScreen: the search box's local state
    searches,    \* searchConversations calls in flight
    otp,         \* VerifyOtpScreen: local state, its intervals and its resendOtp call
    sock,        \* services/socket.ts: the module's socket and the sockets it created
    last         \* the event that led to this state

\* the state of the session, which the chat screens leave alone
sessionVars == <<auth, dash, calls>>

\* the state of the chat screens
chatVars == <<env, store, list, fetches, detail, msgFetches, hist, composer, sends>>

\* the state the chat screens' handlers leave alone
searchVars == <<search, searches>>

besideChat == <<sessionVars, rendering, searchVars, otp, sock>>

vars == <<screen, chatVars, besideChat, last>>

(***************************************************************************)
(* Values.                                                                 *)
(***************************************************************************)
Areas      == {"athens", "thessaloniki"}
NoArea     == "null"
NoError    == "null"
LoadError  == "error"
ConvIds    == 1..NumConvIds
NullCursor == [area |-> NoArea, k |-> 0]
CursorsOf(a) == {[area |-> a, k |-> k] : k \in 1..NumCursors}

RECURSIVE SeqsUpTo(_, _)
SeqsUpTo(S, n) ==
    IF n = 0 THEN {<<>>}
    ELSE LET shorter == SeqsUpTo(S, n - 1)
         IN  shorter \cup {Append(s, x) : s \in {t \in shorter : Len(t) = n - 1}, x \in S}

RemoveAt(s, i) == SubSeq(s, 1, i - 1) \o SubSeq(s, i + 1, Len(s))

Ids(items) == [i \in 1..Len(items) |-> items[i].id]

HasDuplicateIds(items) ==
    \E i, j \in 1..Len(items) : i /= j /\ items[i].id = items[j].id

(***************************************************************************)
(* The conversations endpoint.  A response to fetchConversations(area,     *)
(* cursor) is any page of at most MaxPageLen conversations of that area    *)
(* with any pagination block, or a rejection.  mapApiConversation keeps    *)
(* the id; the area a conversation was fetched for is kept with it.        *)
(***************************************************************************)
ConvPages == SeqsUpTo(ConvIds, MaxPageLen)

mapApiConversation(id, a) == [id |-> id, area |-> a]

ConvResponsesByArea ==
    [a \in Areas |->
        { [conversations |-> [i \in 1..Len(p) |-> mapApiConversation(p[i], a)],
           nextCursor    |-> c,
           hasMore       |-> h] :
             p \in ConvPages, c \in CursorsOf(a) \cup {NullCursor}, h \in BOOLEAN }]

ConvResponses(a) == ConvResponsesByArea[a]

(***************************************************************************)
(* chat.store.ts                                                           *)
(***************************************************************************)
\* activeConversationId: null
NoConversation == 0

\* the data fields of a new store: archivedConversations is not among them
initialState ==
    [conversations |-> <<>>, activeConversationId |-> NoConversation, messages |-> <<>>,
     isLoading |-> FALSE, error |-> NoError]

\* zustand's set(partial): the partial state is merged into the state
set(s, partial) ==
    [k \in DOMAIN s \cup DOMAIN partial |-> IF k \in DOMAIN partial THEN partial[k] ELSE s[k]]

\* reading a property the object may not have
\* state.messages[conversationId] ?? []
Thread(s, conversationId) ==
    IF conversationId \in DOMAIN s.messages THEN s.messages[conversationId] ELSE <<>>

setConversations(s, conversations) == set(s, [conversations |-> conversations])

RECURSIVE Filter(_, _)
Filter(items, existingIds) ==
    IF items = <<>> THEN <<>>
    ELSE IF Head(items).id \in existingIds
         THEN Filter(Tail(items), existingIds)
         ELSE <<Head(items)>> \o Filter(Tail(items), existingIds)

\* appendConversations without the existingIds filter
appendConversationsNoFilter(s, conversations) ==
    [s EXCEPT !.conversations = @ \o conversations]

appendConversations(s, conversations) ==
    LET existingIds == {s.conversations[i].id : i \in 1..Len(s.conversations)}
        newOnes     == Filter(conversations, existingIds)
    IN  [s EXCEPT !.conversations = @ \o newOnes]

setArchivedConversations(s, archivedConversations) ==
    set(s, set(s, [archivedConversations |-> archivedConversations]))

setActiveConversation(s, activeConversationId) ==
    set(s, [activeConversationId |-> activeConversationId])

\* { ...state.messages, [conversationId]: messages }
WithKey(obj, key, value) ==
    [k \in DOMAIN obj \cup {key} |-> IF k = key THEN value ELSE obj[k]]

setMessages(s, conversationId, messages) ==
    set(s, [messages |-> WithKey(s.messages, conversationId, messages)])

addMessage(s, message) ==
    set(s, [messages |-> WithKey(s.messages, message.conversationId,
                                 Append(Thread(s, message.conversationId), message))])

setLoading(s, isLoading) == set(s, [isLoading |-> isLoading])

setError(s, error) == set(s, [error |-> error])

reset(s) == set(s, initialState)

(***************************************************************************)
(* ConversationListScreen                                                  *)
(***************************************************************************)
ListUnmounted ==
    [mounted |-> FALSE, area |-> NoArea, loading |-> FALSE, loadingMore |-> FALSE,
     error |-> NoError, nextCursor |-> NullCursor, hasMore |-> FALSE,
     loadedAreaRef |-> NoArea, onEndReachedCalled |-> FALSE]

\* useState / useRef initial values of a fresh instance showing area a
ListFresh(a) == [ListUnmounted EXCEPT !.mounted = TRUE, !.area = a]

\* cleanup of the initial-load effect: cancelled = true
CancelInitial(f) ==
    [f EXCEPT !.init = {[r EXCEPT !.cancelled = TRUE] : r \in @}]

\* the instance is gone: its loadMore calls stay in flight, owned by nobody
Orphan(f) ==
    [f EXCEPT !.more = [i \in 1..Len(@) |-> [@[i] EXCEPT !.own = FALSE]]]

\* body of the initial-load effect up to its await
InitialLoadEffect(l, f, conversations) ==
    IF l.loadedAreaRef = l.area /\ Len(conversations) > 0
    THEN [list |-> l, fetches |-> f]
    ELSE [list    |-> [l EXCEPT !.loadedAreaRef = l.area, !.loading = TRUE,
                                !.error = NoError, !.nextCursor = NullCursor,
                                !.hasMore = FALSE],
          fetches |-> [f EXCEPT !.init = @ \cup {[area |-> l.area, cancelled |-> FALSE]}]]

\* InitialLoaded appending to the feed instead of replacing it
InitialLoadedKeepsFeed(l, s, r, result) ==
    IF r.cancelled THEN [list |-> l, store |-> s]
    ELSE [list  |-> [l EXCEPT !.nextCursor = result.nextCursor,
                              !.hasMore = result.hasMore, !.loading = FALSE],
          store |-> appendConversations(s, result.conversations)]

\* continuation of the initial load after a successful fetch
InitialLoaded(l, s, r, result) ==
    IF r.cancelled THEN [list |-> l, store |-> s]
    ELSE [list  |-> [l EXCEPT !.nextCursor = result.nextCursor,
                              !.hasMore = result.hasMore, !.loading = FALSE],
          store |-> setConversations(s, result.conversations)]

\* InitialFailed emptying the feed
InitialFailedClearsFeed(l, s, r) ==
    IF r.cancelled THEN [list |-> l, store |-> s]
    ELSE [list  |-> [l EXCEPT !.error = LoadError, !.loading = FALSE],
          store |-> setConversations(s, <<>>)]

\* continuation of the initial load after a rejected fetch
InitialFailed(l, s, r) ==
    IF r.cancelled THEN [list |-> l, store |-> s]
    ELSE [list  |-> [l EXCEPT !.error = LoadError, !.loading = FALSE],
          store |-> s]

\* loadMore without the loadingMore / onEndReachedCalled guards
loadMoreUnguarded(l, f) ==
    IF ~l.hasMore \/ l.nextCursor = NullCursor
    THEN [list |-> l, fetches |-> f]
    ELSE [list    |-> [l EXCEPT !.onEndReachedCalled = TRUE, !.loadingMore = TRUE],
          fetches |-> [f EXCEPT !.more =
                          Append(@, [area |-> l.area, cursor |-> l.nextCursor, own |-> TRUE])]]

\* loadMore up to its await
loadMore(l, f) ==
    IF l.loadingMore \/ ~l.hasMore \/ l.nextCursor = NullCursor
    THEN [list |-> l, fetches |-> f]
    ELSE IF l.onEndReachedCalled
    THEN [list |-> l, fetches |-> f]
    ELSE [list    |-> [l EXCEPT !.onEndReachedCalled = TRUE, !.loadingMore = TRUE],
          fetches |-> [f EXCEPT !.more =
                          Append(@, [area |-> l.area, cursor |-> l.nextCursor, own |-> TRUE])]]

\* state setters of an instance that is gone change nothing
MoreSettled(l, r, result) ==
    IF r.own
    THEN [l EXCEPT !.nextCursor = result.nextCursor, !.hasMore = result.hasMore,
                   !.loadingMore = FALSE, !.onEndReachedCalled = FALSE]
    ELSE l

\* MoreFailed without the reset of onEndReachedCalled
MoreFailedKeepsGuard(l, r) ==
    IF r.own THEN [l EXCEPT !.loadingMore = FALSE] ELSE l

MoreFailed(l, r) ==
    IF r.own
    THEN [l EXCEPT !.loadingMore = FALSE, !.onEndReachedCalled = FALSE]
    ELSE l

ListFrame == UNCHANGED <<screen, detail, msgFetches, hist, composer, sends, besideChat>>

\* the last event: its name, whether it met a feed that held items, and whether
\* it left out items of the page it delivered and added others
Ev(op, dropped, added) ==
    [op |-> op, hadItems |-> Len(store.conversations) > 0, dropped |-> dropped, added |-> added]

\* the route's initialArea changes under the mounted screen
SwitchArea(a) ==
    /\ screen = "list" /\ list.mounted /\ a /= list.area
    /\ env.navs < MaxNavs
    /\ LET r == InitialLoadEffect([list EXCEPT !.area = a], CancelInitial(fetches),
                                  store.conversations)
       IN  list' = r.list /\ fetches' = r.fetches
    /\ env' = [env EXCEPT !.navs = @ + 1]
    /\ last' = Ev("switchArea", FALSE, FALSE)
    /\ UNCHANGED store
    /\ ListFrame

\* the chat stack is popped (back to the dashboard)
ListUnmount ==
    /\ screen = "list" /\ list.mounted
    /\ list' = ListUnmounted
    /\ fetches' = Orphan(CancelInitial(fetches))
    /\ last' = Ev("unmount", FALSE, FALSE)
    /\ UNCHANGED <<store, env>>
    /\ ListFrame

\* the dashboard opens the chat stack for area a
ListMount(a) ==
    /\ screen = "list" /\ ~list.mounted
    /\ env.navs < MaxNavs
    /\ LET r == InitialLoadEffect(ListFresh(a), fetches, store.conversations)
       IN  list' = r.list /\ fetches' = r.fetches
    /\ env' = [env EXCEPT !.navs = @ + 1]
    /\ last' = Ev("mount", FALSE, FALSE)
    /\ UNCHANGED store
    /\ ListFrame

InitialLoadOk(r, result) ==
    /\ screen = "list" /\ r \in fetches.init
    /\ LET n == InitialLoaded(list, store, r, result)
       IN  list' = n.list /\ store' = n.store
    /\ fetches' = [fetches EXCEPT !.init = @ \ {r}]
    /\ last' = Ev(IF r.cancelled THEN "initialCancelled" ELSE "initialOk", FALSE, FALSE)
    /\ UNCHANGED env
    /\ ListFrame

InitialLoadFail(r) ==
    /\ screen = "list" /\ r \in fetches.init
    /\ LET n == InitialFailed(list, store, r)
       IN  list' = n.list /\ store' = n.store
    /\ fetches' = [fetches EXCEPT !.init = @ \ {r}]
    /\ last' = Ev(IF r.cancelled THEN "initialCancelled" ELSE "initialFail", FALSE, FALSE)
    /\ UNCHANGED env
    /\ ListFrame

\* the FlatList is rendered only when !loading && !error and the list is not empty
ListShown ==
    list.mounted /\ ~list.loading /\ list.error = NoError /\ Len(store.conversations) > 0

\* FlatList onEndReached
LoadMore ==
    /\ screen = "list" /\ ListShown
    /\ LET r == loadMore(list, fetches)
       IN  /\ list' = r.list /\ fetches' = r.fetches
           /\ last' = Ev(IF r.fetches = fetches THEN "loadMoreIgnored" ELSE "loadMore", FALSE, FALSE)
    /\ UNCHANGED <<store, env>>
    /\ ListFrame

LoadMoreOk(i, result) ==
    /\ screen = "list" /\ i \in 1..Len(fetches.more)
    /\ store' = appendConversations(store, result.conversations)
    /\ list' = MoreSettled(list, fetches.more[i], result)
    /\ fetches' = [fetches EXCEPT !.more = RemoveAt(@, i)]
    /\ last' = Ev(IF fetches.more[i].own THEN "loadMoreOk" ELSE "lateLoadMoreOk",
                  Len(store'.conversations) < Len(store.conversations) + Len(result.conversations),
                  Len(store'.conversations) > Len(store.conversations))
    /\ UNCHANGED env
    /\ ListFrame

LoadMoreFail(i) ==
    /\ screen = "list" /\ i \in 1..Len(fetches.more)
    /\ list' = MoreFailed(list, fetches.more[i])
    /\ fetches' = [fetches EXCEPT !.more = RemoveAt(@, i)]
    /\ last' = Ev(IF fetches.more[i].own THEN "loadMoreFail" ELSE "lateLoadMoreFail", FALSE, FALSE)
    /\ UNCHANGED <<store, env>>
    /\ ListFrame

(***************************************************************************)
(* The messages endpoint.  The conversation's history is NumPages pages of  *)
(* PageLen messages; a larger id is a newer message and page 1 is the       *)
(* newest.  A cursor is the number of the page it was issued after (0 is    *)
(* null).  A response to fetchConversationMessages is any page of the       *)
(* history or the empty page, with any pagination block, or a rejection;    *)
(* the faithful response to cursor c is page c + 1.  Whether a page comes   *)
(* newest-first or oldest-first on the wire is a property of the backend    *)
(* (env.newestFirst).                                                       *)
(***************************************************************************)
NumMsgs   == NumPages * PageLen
MsgIds    == 1..NumMsgs
AbsentId  == NumMsgs + 1
TsOf(id)  == 100 + id
AbsentTs  == TsOf(AbsentId)

mapApiMessage(id) == [id |-> id, timestamp |-> TsOf(id)]

Reverse(s) == [i \in 1..Len(s) |-> s[Len(s) + 1 - i]]

\* page k of the history as the server sends it (page 0 is the empty page)
WirePage(k, newestFirst) ==
    IF k = 0 THEN <<>>
    ELSE LET desc == [i \in 1..PageLen |-> mapApiMessage(NumMsgs - (k - 1) * PageLen - (i - 1))]
         IN  IF newestFirst THEN desc ELSE Reverse(desc)

PageOf(id) == (NumMsgs - id) \div PageLen + 1

MsgResponses ==
    [page : 0..NumPages, hasMore : BOOLEAN, nextCursor : 0..(NumPages - 1)]

FaithfulResponse(c) ==
    [page       |-> IF c < NumPages THEN c + 1 ELSE 0,
     hasMore    |-> c + 1 < NumPages,
     nextCursor |-> IF c + 1 < NumPages THEN c + 1 ELSE 0]

(***************************************************************************)
(* ConversationDetailScreen                                                *)
(***************************************************************************)
NoTarget == [id |-> 0, ts |-> 0]

\* route params highlightMessageId / highlightTimestamp of a search result
Targets == [id : {0, AbsentId} \cup MsgIds, ts : {0, AbsentTs} \cup {TsOf(i) : i \in MsgIds}]

\* useState / useRef initial values
DetailFresh(target) ==
    [mounted |-> TRUE, messages |-> <<>>, loading |-> TRUE, loadingOlder |-> FALSE,
     error |-> NoError, nextCursor |-> 0, hasMore |-> FALSE,
     highlightedMessageId |-> 0, pendingHighlight |-> target,
     onEndReachedRef |-> FALSE,
     timer   |-> FALSE,    \* the timeout held by highlightTimerRef is pending
     cleanup |-> FALSE,    \* the highlight effect's last run returned its cleanup
     scrolledTo |-> 0]     \* index of the last scrollToIndex request

\* messages.findIndex((m) => m[field] === value), 1-based, 0 for -1
findIndex(s, field, value) ==
    IF \E i \in 1..Len(s) : s[i][field] = value
    THEN CHOOSE i \in 1..Len(s) :
             s[i][field] = value /\ \A j \in 1..(i - 1) : s[j][field] /= value
    ELSE 0

\* HighlightIndex looking for the timestamp before the id
HighlightIndexTsFirst(messages, target) ==
    LET byTs == IF target.ts /= 0
                THEN findIndex(messages, "timestamp", target.ts) ELSE 0
    IN  IF byTs = 0 /\ target.id /= 0
        THEN findIndex(messages, "id", target.id)
        ELSE byTs

\* the index the highlight effect computes
HighlightIndex(messages, target) ==
    LET byId == IF target.id /= 0
                THEN findIndex(messages, "id", target.id) ELSE 0
    IN  IF byId = 0 /\ target.ts /= 0
        THEN findIndex(messages, "timestamp", target.ts)
        ELSE byId

\* loadOlder without the loadingOlder / onEndReachedRef guards
loadOlderUnguarded(d, f) ==
    IF ~d.hasMore \/ d.nextCursor = 0
    THEN [detail |-> d, msgFetches |-> f]
    ELSE [detail     |-> [d EXCEPT !.onEndReachedRef = TRUE, !.loadingOlder = TRUE],
          msgFetches |-> [f EXCEPT !.older = Append(@, d.nextCursor)]]

\* loadOlder up to its await
loadOlder(d, f) ==
    IF d.loadingOlder \/ ~d.hasMore \/ d.nextCursor = 0
    THEN [detail |-> d, msgFetches |-> f]
    ELSE IF d.onEndReachedRef
    THEN [detail |-> d, msgFetches |-> f]
    ELSE [detail     |-> [d EXCEPT !.onEndReachedRef = TRUE, !.loadingOlder = TRUE],
          msgFetches |-> [f EXCEPT !.older = Append(@, d.nextCursor)]]

\* HighlightEffect returning its cleanup on the found path too
HighlightEffectFoundCleanup(d0, f) ==
    LET d == IF d0.cleanup THEN [d0 EXCEPT !.timer = FALSE] ELSE d0
        index == HighlightIndex(d.messages, d.pendingHighlight)
    IN  IF d.pendingHighlight = NoTarget \/ Len(d.messages) = 0
        THEN [detail |-> [d EXCEPT !.cleanup = FALSE], msgFetches |-> f]
        ELSE IF index /= 0
        THEN [detail |-> [d EXCEPT !.highlightedMessageId = d.messages[index].id,
                                   !.scrolledTo = index,
                                   !.timer = TRUE,
                                   !.pendingHighlight = NoTarget,
                                   !.cleanup = TRUE],
              msgFetches |-> f]
        ELSE IF d.hasMore /\ ~d.loadingOlder
        THEN LET r == loadOlder(d, f)
             IN  [detail |-> [r.detail EXCEPT !.cleanup = TRUE], msgFetches |-> r.msgFetches]
        ELSE [detail |-> [d EXCEPT !.pendingHighlight = NoTarget, !.cleanup = TRUE],
              msgFetches |-> f]

\* one run of the highlight effect: the cleanup its last run returned, then its body
HighlightEffect(d0, f) ==
    LET d == IF d0.cleanup THEN [d0 EXCEPT !.timer = FALSE] ELSE d0
        index == HighlightIndex(d.messages, d.pendingHighlight)
    IN  IF d.pendingHighlight = NoTarget \/ Len(d.messages) = 0
        THEN [detail |-> [d EXCEPT !.cleanup = FALSE], msgFetches |-> f]
        ELSE IF index /= 0
        THEN [detail |-> [d EXCEPT !.highlightedMessageId = d.messages[index].id,
                                   !.scrolledTo = index,
                                   !.timer = TRUE,
                                   !.pendingHighlight = NoTarget,
                                   !.cleanup = FALSE],
              msgFetches |-> f]
        ELSE IF d.hasMore /\ ~d.loadingOlder
        THEN LET r == loadOlder(d, f)
             IN  [detail |-> [r.detail EXCEPT !.cleanup = TRUE], msgFetches |-> r.msgFetches]
        ELSE [detail |-> [d EXCEPT !.pendingHighlight = NoTarget, !.cleanup = TRUE],
              msgFetches |-> f]

\* the highlight effect's dependency list; loadOlder changes with hasMore,
\* nextCursor and loadingOlder
EffectDeps(d) == <<d.messages, d.pendingHighlight, d.hasMore, d.loadingOlder, d.nextCursor>>

\* re-render until no dependency of the effect has changed since its last run
RECURSIVE Settle(_, _, _)
Settle(d, f, deps) ==
    IF EffectDeps(d) = deps THEN [detail |-> d, msgFetches |-> f]
    ELSE LET r == HighlightEffect(d, f)
         IN  Settle(r.detail, r.msgFetches, EffectDeps(d))

\* a render with a new messages array: the effect runs, then Settle
Rerender(d, f) ==
    LET r == HighlightEffect(d, f)
    IN  Settle(r.detail, r.msgFetches, EffectDeps(d))

\* Older pages are appended while the feed holds fewer than the history's messages.
Fits(messages, result) == Len(messages) + Len(WirePage(result.page, TRUE)) <= NumMsgs

\* continuation of the initial load after a successful fetch
MessagesLoaded(d, f, result) ==
    LET apiMessages == WirePage(result.page, env.newestFirst)
        newestFirst == Reverse(apiMessages)
    IN  Rerender([d EXCEPT !.messages = newestFirst, !.nextCursor = result.nextCursor,
                           !.hasMore = result.hasMore, !.loading = FALSE], f)

\* OlderLoaded appending the page as it came on the wire
OlderLoadedNoReverse(d, f, result) ==
    LET olderChunk == WirePage(result.page, env.newestFirst)
    IN  Rerender([d EXCEPT !.messages = @ \o olderChunk,
                           !.nextCursor = result.nextCursor,
                           !.hasMore = result.hasMore, !.loadingOlder = FALSE,
                           !.onEndReachedRef = FALSE], f)

\* OlderLoaded putting the page in front of the loaded messages
OlderLoadedPrepends(d, f, result) ==
    LET olderChunk == WirePage(result.page, env.newestFirst)
        olderNewestFirst == Reverse(olderChunk)
    IN  Rerender([d EXCEPT !.messages = olderNewestFirst \o @,
                           !.nextCursor = result.nextCursor,
                           !.hasMore = result.hasMore, !.loadingOlder = FALSE,
                           !.onEndReachedRef = FALSE], f)

\* continuation of loadOlder after a successful fetch
OlderLoaded(d, f, result) ==
    LET olderChunk == WirePage(result.page, env.newestFirst)
        olderNewestFirst == Reverse(olderChunk)
    IN  Rerender([d EXCEPT !.messages = @ \o olderNewestFirst,
                           !.nextCursor = result.nextCursor,
                           !.hasMore = result.hasMore, !.loadingOlder = FALSE,
                           !.onEndReachedRef = FALSE], f)

\* OlderFailed without the reset of onEndReachedRef
OlderFailedKeepsGuard(d, f) ==
    Settle([d EXCEPT !.loadingOlder = FALSE], f, EffectDeps(d))

\* continuation of loadOlder after a rejected fetch
OlderFailed(d, f) ==
    Settle([d EXCEPT !.loadingOlder = FALSE, !.onEndReachedRef = FALSE], f, EffectDeps(d))

DetailFrame == UNCHANGED <<screen, env, store, list, fetches, composer, sends, besideChat>>

\* The history of a visit is kept while every response has been the faithful
\* one: the route's highlight target, the older-page requests issued, whether
\* the user's scrolling issued one, and the id that was highlighted.
NoHist == [faithful |-> FALSE, target |-> NoTarget, olderFetches |-> 0,
           userScrolled |-> FALSE, highlit |-> 0]

\* h after an event that left the screen as d and issued `issued` older-page
\* requests, on the user's scrolling or not
Recorded(h, d, issued, byUser) ==
    IF ~h.faithful THEN NoHist
    ELSE [h EXCEPT !.olderFetches = @ + issued,
                   !.userScrolled = @ \/ (byUser /\ issued > 0),
                   !.highlit = IF d.highlightedMessageId /= 0
                               THEN d.highlightedMessageId ELSE @]

DetailInitialOk(result) ==
    /\ screen = "detail" /\ msgFetches.init /= "none"
    /\ LET r == IF msgFetches.init = "live"
                THEN MessagesLoaded(detail, [msgFetches EXCEPT !.init = "none"], result)
                ELSE [detail |-> detail, msgFetches |-> [msgFetches EXCEPT !.init = "none"]]
       IN  /\ detail' = r.detail /\ msgFetches' = r.msgFetches
           /\ hist' = Recorded(IF result = FaithfulResponse(0) THEN hist ELSE NoHist,
                               r.detail, Len(r.msgFetches.older) - Len(msgFetches.older), FALSE)
    /\ last' = Ev("detailInitialOk", FALSE, FALSE)
    /\ DetailFrame

DetailInitialFail ==
    /\ screen = "detail" /\ msgFetches.init /= "none"
    /\ detail' = IF msgFetches.init = "live"
                 THEN [detail EXCEPT !.error = LoadError, !.loading = FALSE]
                 ELSE detail
    /\ msgFetches' = [msgFetches EXCEPT !.init = "none"]
    /\ hist' = NoHist
    /\ last' = Ev("detailInitialFail", FALSE, FALSE)
    /\ DetailFrame

\* the FlatList is rendered only when !loading && !error
DetailShown == detail.mounted /\ ~detail.loading /\ detail.error = NoError

\* FlatList onEndReached
LoadOlder ==
    /\ screen = "detail" /\ DetailShown
    /\ LET c == loadOlder(detail, msgFetches)
           r == Settle(c.detail, c.msgFetches, EffectDeps(detail))
       IN  /\ detail' = r.detail /\ msgFetches' = r.msgFetches
           /\ hist' = Recorded(hist, r.detail,
                               Len(r.msgFetches.older) - Len(msgFetches.older), TRUE)
           /\ last' = Ev(IF r.msgFetches = msgFetches THEN "loadOlderIgnored"
                         ELSE "loadOlder", FALSE, FALSE)
    /\ DetailFrame

LoadOlderOk(i, result) ==
    /\ screen = "detail" /\ i \in 1..Len(msgFetches.older)
    /\ Fits(detail.messages, result)
    /\ LET f == [msgFetches EXCEPT !.older = RemoveAt(@, i)]
           r == IF detail.mounted THEN OlderLoaded(detail, f, result)
                ELSE [detail |-> detail, msgFetches |-> f]
       IN  /\ detail' = r.detail /\ msgFetches' = r.msgFetches
           /\ hist' = Recorded(IF result = FaithfulResponse(msgFetches.older[i])
                               THEN hist ELSE NoHist,
                               r.detail, Len(r.msgFetches.older) - Len(f.older), FALSE)
    /\ last' = Ev("loadOlderOk", FALSE, FALSE)
    /\ DetailFrame

LoadOlderFail(i) ==
    /\ screen = "detail" /\ i \in 1..Len(msgFetches.older)
    /\ LET f == [msgFetches EXCEPT !.older = RemoveAt(@, i)]
           r == IF detail.mounted THEN OlderFailed(detail, f)
                ELSE [detail |-> detail, msgFetches |-> f]
       IN  detail' = r.detail /\ msgFetches' = r.msgFetches
    /\ hist' = NoHist
    /\ last' = Ev("loadOlderFail", FALSE, FALSE)
    /\ DetailFrame

\* the one-shot timeout of the highlight fires
HighlightTimer ==
    /\ screen = "detail" /\ detail.timer
    /\ detail' = [detail EXCEPT !.timer = FALSE,
                                !.highlightedMessageId = IF detail.mounted THEN 0 ELSE @]
    /\ last' = Ev("highlightTimer", FALSE, FALSE)
    /\ UNCHANGED <<msgFetches, hist>>
    /\ DetailFrame

\* the screen is popped: both effects' cleanups run
DetailUnmount ==
    /\ screen = "detail" /\ detail.mounted
    /\ detail' = [detail EXCEPT !.mounted = FALSE, !.cleanup = FALSE,
                                !.timer = IF detail.cleanup THEN FALSE ELSE @]
    /\ msgFetches' = [msgFetches EXCEPT !.init = IF @ = "live" THEN "cancelled" ELSE @]
    /\ hist' = NoHist
    /\ last' = Ev("detailUnmount", FALSE, FALSE)
    /\ DetailFrame

(***************************************************************************)
(* MessageComposer.  A text is a sequence of characters; " " stands for    *)
(* white space and "a" for any other character.                            *)
(***************************************************************************)
Chars == {" ", "a"}
Texts == SeqsUpTo(Chars, MaxTextLen)

\* String.prototype.trim
RECURSIVE trim(_)
trim(s) ==
    IF s = <<>> THEN s
    ELSE IF Head(s) = " " THEN trim(Tail(s))
    ELSE IF s[Len(s)] = " " THEN trim(SubSeq(s, 1, Len(s) - 1))
    ELSE s

\* useState initial values
ComposerFresh == [text |-> <<>>]

\* handleSendText up to its await; `typed` remembers the input at the press
handleSendText(c, f) ==
    LET content == trim(c.text)
    IN  IF content = <<>>
        THEN [composer |-> c, sends |-> f]
        ELSE [composer |-> [c EXCEPT !.text = <<>>],
              sends    |-> Append(f, [content |-> content, typed |-> c.text])]

\* continuation of handleSendText after a rejected sendMessage
SendRejected(c, r) == [c EXCEPT !.text = r.content]

ComposerFrame ==
    UNCHANGED <<screen, env, store, list, fetches, detail, msgFetches, hist, besideChat>>

ComposerEv(op) == [op |-> op, hadItems |-> FALSE, dropped |-> FALSE, added |-> FALSE]

\* TextInput onChangeText
ChangeText(t) ==
    /\ screen = "composer" /\ t /= composer.text
    /\ composer' = [composer EXCEPT !.text = t]
    /\ last' = ComposerEv("changeText")
    /\ UNCHANGED sends
    /\ ComposerFrame

\* the send button, rendered while text.trim().length > 0
PressSend ==
    /\ screen = "composer" /\ trim(composer.text) /= <<>>
    /\ Len(sends) < MaxSends
    /\ LET r == handleSendText(composer, sends)
       IN  composer' = r.composer /\ sends' = r.sends
    /\ last' = ComposerEv("pressSend")
    /\ ComposerFrame

SendOk(i) ==
    /\ screen = "composer" /\ i \in 1..Len(sends)
    /\ sends' = RemoveAt(sends, i)
    /\ last' = ComposerEv("sendOk")
    /\ UNCHANGED composer
    /\ ComposerFrame

SendFail(i) ==
    /\ screen = "composer" /\ i \in 1..Len(sends)
    /\ composer' = SendRejected(composer, sends[i])
    /\ sends' = RemoveAt(sends, i)
    /\ last' = ComposerEv("sendFail")
    /\ ComposerFrame

NoFetches == [init |-> {}, more |-> <<>>]

NoMsgFetches == [init |-> "none", older |-> <<>>]

\* the screen that is not followed stays unmounted
DetailIdle == [DetailFresh(NoTarget) EXCEPT !.mounted = FALSE, !.loading = FALSE]

(***************************************************************************)
(* The session: useAuthStore with the token it persists in AsyncStorage,   *)
(* the response interceptor of the shared axios instance (services/api.ts) *)
(* and DashboardScreen's handleLogout.  RootNavigator shows the main stack *)
(* (DashboardScreen, the chat screens) while tokenData holds a token and   *)
(* the auth stack otherwise.  AsyncStorage.removeItem resolves or rejects. *)
(* A response status of 0 stands for a failure without a response.         *)
(***************************************************************************)
NoToken  == "null"
Token    == "token"
Statuses == {0, 401, 403, 500}

\* the store after hydrate() has read a persisted token
SignedIn == [tokenData |-> Token, stored |-> Token]

\* clearToken after AsyncStorage.removeItem has resolved
clearToken(a) == [a EXCEPT !.stored = NoToken, !.tokenData = NoToken]

\* the interceptor's error handler up to its await: the request waits for
\* clearToken on 401 / 403, and is rejected to its caller at once otherwise
ResponseError(c, status) ==
    [c EXCEPT !.status = status,
              !.phase = IF status = 401 \/ status = 403 THEN "clearing" ELSE "rejected"]

\* useState initial values of DashboardScreen; logout is the position of its
\* handleLogout call
DashFresh == [mounted |-> TRUE, loggingOut |-> FALSE, logout |-> "idle"]

\* RootNavigator's render: the dashboard is there while a token is
RootNavigator(a, d) ==
    IF a.tokenData = NoToken
    THEN [d EXCEPT !.mounted = FALSE, !.loggingOut = FALSE]
    ELSE d

\* handleLogout up to its first await
handleLogout(a, d) ==
    IF a.tokenData = NoToken
    THEN [d EXCEPT !.logout = "clearing"]
    ELSE [d EXCEPT !.loggingOut = TRUE, !.logout = "requesting"]

\* the finally block of handleLogout after clearToken has resolved; the
\* setter of a dashboard that is gone changes nothing
LogoutFinished(d) == [d EXCEPT !.loggingOut = FALSE, !.logout = "idle"]

SessionFrame == UNCHANGED <<screen, chatVars, rendering, searchVars, otp, sock>>

\* the last event, with the rejection a caller received: the response's
\* status and whether the error is the response's or the storage's
SessionEv(op, status, error) ==
    [op |-> op, hadItems |-> FALSE, dropped |-> FALSE, added |-> FALSE,
     status |-> status, error |-> error]

\* a screen of the main stack calls an endpoint through the axios instance
ApiCall ==
    /\ screen = "session" /\ auth.tokenData /= NoToken
    /\ Len(calls) < MaxCalls
    /\ calls' = Append(calls, [status |-> 0, phase |-> "sent"])
    /\ last' = SessionEv("apiCall", 0, "none")
    /\ UNCHANGED <<auth, dash>>
    /\ SessionFrame

ApiOk(i) ==
    /\ screen = "session" /\ i \in 1..Len(calls) /\ calls[i].phase = "sent"
    /\ calls' = RemoveAt(calls, i)
    /\ last' = SessionEv("apiOk", 200, "none")
    /\ UNCHANGED <<auth, dash>>
    /\ SessionFrame

\* the request fails with a status: the interceptor's error handler runs
ApiError(i, status) ==
    /\ screen = "session" /\ i \in 1..Len(calls) /\ calls[i].phase = "sent"
    /\ LET c == ResponseError(calls[i], status)
       IN  IF c.phase = "rejected"
           THEN /\ calls' = RemoveAt(calls, i)
                /\ last' = SessionEv("apiRejected", status, "response")
           ELSE /\ calls' = [calls EXCEPT ![i] = c]
                /\ last' = SessionEv("apiClearing", status, "none")
    /\ UNCHANGED <<auth, dash>>
    /\ SessionFrame

\* removeItem resolves inside the interceptor: the token is cleared, then the
\* response's error is rejected to the caller
ApiCleared(i) ==
    /\ screen = "session" /\ i \in 1..Len(calls) /\ calls[i].phase = "clearing"
    /\ auth' = clearToken(auth)
    /\ dash' = RootNavigator(auth', dash)
    /\ calls' = RemoveAt(calls, i)
    /\ last' = SessionEv("apiRejected", calls[i].status, "response")
    /\ SessionFrame

\* removeItem rejects inside the interceptor: clearToken throws before set(),
\* and the handler's promise rejects with the storage's error
ApiClearFailed(i) ==
    /\ screen = "session" /\ i \in 1..Len(calls) /\ calls[i].phase = "clearing"
    /\ calls' = RemoveAt(calls, i)
    /\ last' = SessionEv("apiRejected", calls[i].status, "storage")
    /\ UNCHANGED <<auth, dash>>
    /\ SessionFrame

\* the Log out button, disabled while loggingOut
PressLogout ==
    /\ screen = "session" /\ dash.mounted /\ ~dash.loggingOut /\ dash.logout = "idle"
    /\ dash' = handleLogout(auth, dash)
    /\ last' = SessionEv("pressLogout", 0, "none")
    /\ UNCHANGED <<auth, calls>>
    /\ SessionFrame

\* employeeLogout resolves, rejects or times out: the finally block starts clearToken
LogoutResponded(outcome) ==
    /\ screen = "session" /\ dash.logout = "requesting"
    /\ dash' = [dash EXCEPT !.logout = "clearing"]
    /\ last' = SessionEv(outcome, 0, "none")
    /\ UNCHANGED <<auth, calls>>
    /\ SessionFrame

\* removeItem resolves inside handleLogout
LogoutCleared ==
    /\ screen = "session" /\ dash.logout = "clearing"
    /\ auth' = clearToken(auth)
    /\ dash' = RootNavigator(auth', LogoutFinished(dash))
    /\ last' = SessionEv("logoutDone", 0, "none")
    /\ UNCHANGED calls
    /\ SessionFrame

\* removeItem rejects inside handleLogout: clearToken throws out of the
\* finally block, before setLoggingOut(false)
LogoutClearFailed ==
    /\ screen = "session" /\ dash.logout = "clearing"
    /\ dash' = [dash EXCEPT !.logout = "idle"]
    /\ last' = SessionEv("logoutThrew", 0, "storage")
    /\ UNCHANGED <<auth, calls>>
    /\ SessionFrame

(***************************************************************************)
(* renderMessage of ConversationDetailScreen.  A feed is newest-first; a   *)
(* message is the flag isMedia tests (an image or video with a URL), its   *)
(* direction and its timestamp in milliseconds.  FlatList calls             *)
(* renderMessage for every index of its data; a bubble is what one call    *)
(* returns: null, or the item with its mediaGroup (empty for null).        *)
(***************************************************************************)
GroupWindowMs == 60000
NewestTs      == 1000000
Gaps          == {20000, 40000, 70000}
Directions    == {"incoming", "outgoing"}

\* the feeds of at most n messages, each message older than the one before it
RECURSIVE FeedsUpTo(_)
FeedsUpTo(n) ==
    IF n = 0 THEN {<<>>}
    ELSE LET shorter == FeedsUpTo(n - 1)
         IN  shorter \cup
             { Append(s, [media |-> md, direction |-> dir,
                          timestamp |-> IF s = <<>> THEN NewestTs
                                        ELSE s[Len(s)].timestamp - gap]) :
                 s \in {f \in shorter : Len(f) = n - 1},
                 md \in BOOLEAN, dir \in Directions, gap \in Gaps }

Abs(x) == IF x < 0 THEN -x ELSE x

isMedia(m) == m.media

\* the indices are 1-based: messages[index - 1] of the code is messages[index - 1] here
previousIsSameMediaGroup(messages, index) ==
    /\ index > 1
    /\ isMedia(messages[index - 1])
    /\ messages[index - 1].direction = messages[index].direction
    /\ Abs(messages[index - 1].timestamp - messages[index].timestamp) < GroupWindowMs

\* the while loop: the first j at which the candidate does not join the group
RECURSIVE GroupEnd(_, _, _)
GroupEnd(messages, index, j) ==
    IF /\ j <= Len(messages)
       /\ isMedia(messages[j])
       /\ messages[j].direction = messages[index].direction
       /\ Abs(messages[j].timestamp - messages[index].timestamp) < GroupWindowMs
    THEN GroupEnd(messages, index, j + 1)
    ELSE j

NullBubble == [item |-> 0, mediaGroup |-> {}]

\* what renderMessage({ item: messages[index], index }) shows: nothing, or the
\* item with the indices of its mediaGroup
renderMessage(messages, index) ==
    IF isMedia(messages[index]) /\ previousIsSameMediaGroup(messages, index)
    THEN NullBubble
    ELSE LET group == index..(GroupEnd(messages, index, index + 1) - 1)
         IN  [item |-> index,
              mediaGroup |-> IF isMedia(messages[index]) /\ Cardinality(group) >= 3
                             THEN group ELSE {}]

RenderFrame == UNCHANGED <<screen, chatVars, sessionVars, searchVars, otp, sock>>

\* FlatList renders the next item of its data
RenderItem ==
    /\ screen = "render"
    /\ Len(rendering.bubbles) < Len(rendering.messages)
    /\ rendering' = [rendering EXCEPT !.bubbles =
                        Append(@, renderMessage(rendering.messages, Len(@) + 1))]
    /\ last' = ComposerEv("renderItem")
    /\ RenderFrame

(***************************************************************************)
(* The search box of ConversationListScreen.  A query is a text; the       *)
(* search effect depends on [area, searchQuery].  A response to            *)
(* searchConversations(area, q) is a list of results for that area and     *)
(* query (one result or none), or a rejection.                             *)
(***************************************************************************)
SearchUnmounted ==
    [mounted |-> FALSE, area |-> NoArea, searchQuery |-> <<>>, searchResults |-> <<>>,
     searchLoading |-> FALSE, searchError |-> NoError]

\* useState initial values
SearchFresh(a) == [SearchUnmounted EXCEPT !.mounted = TRUE, !.area = a]

SearchResponses(r) == {<<>>, <<[area |-> r.area, query |-> r.q]>>}

\* cleanup of the search effect: cancelled = true
CancelSearches(f) == [i \in 1..Len(f) |-> [f[i] EXCEPT !.cancelled = TRUE]]

\* one run of the search effect: the cleanup of its last run, then its body up
\* to the await
SearchEffect(s, f) ==
    LET q == trim(s.searchQuery)
    IN  IF q = <<>>
        THEN [search   |-> [s EXCEPT !.searchResults = <<>>, !.searchError = NoError,
                                     !.searchLoading = FALSE],
              searches |-> CancelSearches(f)]
        ELSE [search   |-> [s EXCEPT !.searchLoading = TRUE, !.searchError = NoError],
              searches |-> Append(CancelSearches(f),
                                  [area |-> s.area, q |-> q, cancelled |-> FALSE])]

\* SearchLoaded without the test of `cancelled`
SearchLoadedUnguarded(s, r, results) ==
    [s EXCEPT !.searchResults = results, !.searchLoading = FALSE]

\* continuation of the search after a successful response
SearchLoaded(s, r, results) ==
    IF r.cancelled THEN s
    ELSE [s EXCEPT !.searchResults = results, !.searchLoading = FALSE]

\* continuation of the search after a rejection
SearchFailed(s, r) ==
    IF r.cancelled THEN s
    ELSE [s EXCEPT !.searchError = LoadError, !.searchLoading = FALSE]

SearchFrame == UNCHANGED <<screen, chatVars, sessionVars, rendering, otp, sock>>

\* TextInput onChangeText={setSearchQuery}
ChangeQuery(t) ==
    /\ screen = "search" /\ search.mounted /\ t /= search.searchQuery
    /\ Len(searches) < MaxSearches
    /\ LET r == SearchEffect([search EXCEPT !.searchQuery = t], searches)
       IN  search' = r.search /\ searches' = r.searches
    /\ last' = ComposerEv("changeQuery")
    /\ SearchFrame

\* the route's initialArea changes under the mounted screen
SearchSwitchArea(a) ==
    /\ screen = "search" /\ search.mounted /\ a /= search.area
    /\ Len(searches) < MaxSearches
    /\ LET r == SearchEffect([search EXCEPT !.area = a], searches)
       IN  search' = r.search /\ searches' = r.searches
    /\ last' = ComposerEv("searchSwitchArea")
    /\ SearchFrame

SearchOk(i, results) ==
    /\ screen = "search" /\ i \in 1..Len(searches)
    /\ search' = SearchLoaded(search, searches[i], results)
    /\ searches' = RemoveAt(searches, i)
    /\ last' = ComposerEv(IF searches[i].cancelled THEN "searchStale" ELSE "searchOk")
    /\ SearchFrame

SearchFail(i) ==
    /\ screen = "search" /\ i \in 1..Len(searches)
    /\ search' = SearchFailed(search, searches[i])
    /\ searches' = RemoveAt(searches, i)
    /\ last' = ComposerEv(IF searches[i].cancelled THEN "searchStale" ELSE "searchFail")
    /\ SearchFrame

\* the chat stack is popped: the effect's cleanup runs
SearchUnmount ==
    /\ screen = "search" /\ search.mounted
    /\ search' = SearchUnmounted
    /\ searches' = CancelSearches(searches)
    /\ last' = ComposerEv("searchUnmount")
    /\ SearchFrame

(***************************************************************************)
(* VerifyOtpScreen: the resend cooldown.  Every setInterval the screen     *)
(* has called and that is not cleared is kept with its `seconds` counter;  *)
(* `ref` marks the one timerRef.current holds.  timerRef is "null", or     *)
(* holds an interval that is "active", or one that was cleared ("stale").  *)
(* Of the code typed into the input only whether it has OTP_LENGTH digits  *)
(* is kept.  The screen is in the auth stack, shown while no token is set. *)
(***************************************************************************)
RESEND_COOLDOWN_SEC == 30

OtpUnmounted ==
    [mounted |-> FALSE, resendCooldown |-> RESEND_COOLDOWN_SEC, resendLoading |-> FALSE,
     otpComplete |-> FALSE, verifyLoading |-> FALSE, error |-> NoError,
     timerRef |-> "null", intervals |-> <<>>, resending |-> FALSE, verifying |-> FALSE]

\* timerRef.current = setInterval(...), with seconds = RESEND_COOLDOWN_SEC
StartInterval(o) ==
    [o EXCEPT !.intervals = Append([i \in 1..Len(@) |-> [@[i] EXCEPT !.ref = FALSE]],
                                   [seconds |-> RESEND_COOLDOWN_SEC, ref |-> TRUE]),
              !.timerRef = "active"]

\* clearInterval(timerRef.current)
ClearRef(o) ==
    [o EXCEPT !.intervals = SelectSeq(@, LAMBDA iv : ~iv.ref),
              !.timerRef = IF @ = "null" THEN "null" ELSE "stale"]

\* useState initial values and the mount effect
OtpFresh == StartInterval([OtpUnmounted EXCEPT !.mounted = TRUE])

\* one callback of interval k
IntervalTick(o, k) ==
    LET seconds == o.intervals[k].seconds - 1
        ticked  == [o EXCEPT !.intervals[k].seconds = seconds,
                             !.resendCooldown = IF o.mounted THEN seconds ELSE @]
    IN  IF seconds <= 0 /\ ticked.timerRef /= "null"
        THEN [ClearRef(ticked) EXCEPT !.timerRef = "null"]
        ELSE ticked

\* handleResend up to its await
handleResend(o) ==
    IF o.resendCooldown > 0 \/ o.resendLoading THEN o
    ELSE [o EXCEPT !.error = NoError, !.resendLoading = TRUE, !.resending = TRUE]

\* continuation of handleResend after resendOtp resolved: the setters of a
\* screen that is gone change nothing, setInterval does
ResendSent(o) ==
    LET started == StartInterval([o EXCEPT !.resending = FALSE])
    IN  IF o.mounted
        THEN [started EXCEPT !.resendCooldown = RESEND_COOLDOWN_SEC, !.resendLoading = FALSE]
        ELSE started

\* continuation of handleResend after resendOtp rejected
ResendFailed(o) ==
    [o EXCEPT !.resending = FALSE,
              !.error = IF o.mounted THEN "resendFailed" ELSE @,
              !.resendLoading = IF o.mounted THEN FALSE ELSE @]

\* handleVerify up to its await
handleVerify(o) ==
    IF ~o.otpComplete THEN [o EXCEPT !.error = "enterCode"]
    ELSE [o EXCEPT !.error = NoError, !.verifyLoading = TRUE, !.verifying = TRUE]

\* continuation of handleVerify after a response without a token or a rejection
VerifyRefused(o) ==
    [o EXCEPT !.verifying = FALSE,
              !.error = IF o.mounted THEN "verifyFailed" ELSE @,
              !.verifyLoading = IF o.mounted THEN FALSE ELSE @]

\* the mount effect's cleanup
OtpCleanup(o) == [ClearRef(o) EXCEPT !.mounted = FALSE]

\* useAuthStore before a token is set
SignedOut == [tokenData |-> NoToken, stored |-> NoToken]

\* setToken(data) with data not null: the token is set in memory, whether or
\* not AsyncStorage.setItem persists it
setToken(a, data, persisted) ==
    [a EXCEPT !.tokenData = data, !.stored = IF persisted THEN data ELSE @]

OtpFrame == UNCHANGED <<screen, chatVars, calls, rendering, searchVars, sock>>

OtpTick(k) ==
    /\ screen = "otp" /\ k \in 1..Len(otp.intervals)
    /\ otp' = IntervalTick(otp, k)
    /\ last' = ComposerEv("otpTick")
    /\ UNCHANGED <<auth, dash>>
    /\ OtpFrame

\* TextInput onChangeText, editable while not verifyLoading
ChangeOtp(complete) ==
    /\ screen = "otp" /\ otp.mounted /\ ~otp.verifyLoading
    /\ complete /= otp.otpComplete
    /\ otp' = [otp EXCEPT !.otpComplete = complete, !.error = NoError]
    /\ last' = ComposerEv("changeOtp")
    /\ UNCHANGED <<auth, dash>>
    /\ OtpFrame

\* the Submit button, disabled while verifyLoading
PressVerify ==
    /\ screen = "otp" /\ otp.mounted /\ ~otp.verifyLoading
    /\ otp' = handleVerify(otp)
    /\ last' = ComposerEv("pressVerify")
    /\ UNCHANGED <<auth, dash>>
    /\ OtpFrame

\* verifyOtp resolved with a token: setToken sets it and RootNavigator
\* replaces the auth stack by the main stack
VerifyOk(persisted) ==
    /\ screen = "otp" /\ otp.verifying
    /\ auth' = setToken(auth, Token, persisted)
    /\ dash' = DashFresh
    /\ otp' = OtpCleanup([otp EXCEPT !.verifying = FALSE])
    /\ last' = ComposerEv("verifyOk")
    /\ OtpFrame

VerifyFail ==
    /\ screen = "otp" /\ otp.verifying
    /\ otp' = VerifyRefused(otp)
    /\ last' = ComposerEv("verifyFail")
    /\ UNCHANGED <<auth, dash>>
    /\ OtpFrame

\* the Resend OTP link, rendered when resendCooldown is not positive and
\* disabled while resendLoading
PressResend ==
    /\ screen = "otp" /\ otp.mounted /\ ~(otp.resendCooldown > 0) /\ ~otp.resendLoading
    /\ otp' = handleResend(otp)
    /\ last' = ComposerEv("pressResend")
    /\ UNCHANGED <<auth, dash>>
    /\ OtpFrame

ResendOk ==
    /\ screen = "otp" /\ otp.resending
    /\ otp' = ResendSent(otp)
    /\ last' = ComposerEv("resendOk")
    /\ UNCHANGED <<auth, dash>>
    /\ OtpFrame

ResendFail ==
    /\ screen = "otp" /\ otp.resending
    /\ otp' = ResendFailed(otp)
    /\ last' = ComposerEv("resendFail")
    /\ UNCHANGED <<auth, dash>>
    /\ OtpFrame

\* Back: navigation.replace('Login')
OtpUnmount ==
    /\ screen = "otp" /\ otp.mounted
    /\ otp' = OtpCleanup(otp)
    /\ last' = ComposerEv("otpUnmount")
    /\ UNCHANGED <<auth, dash>>
    /\ OtpFrame

(***************************************************************************)
(* services/socket.ts.  sockets[i] is the state of the i-th socket that    *)
(* io() created; socket is the module variable (an index, NullSocket for   *)
(* null); returned is what the last connectSocket call returned.           *)
(***************************************************************************)
NullSocket == 0

NoSockets == [socket |-> NullSocket, sockets |-> <<>>, returned |-> NullSocket]

\* io(url, opts): a new socket that starts connecting at once
io(k) == [k EXCEPT !.sockets = Append(@, "connecting")]

\* socket?.connected
IsConnected(k) == k.socket /= NullSocket /\ k.sockets[k.socket] = "connected"

getSocket(k) == k.socket

connectSocket(k) ==
    IF IsConnected(k)
    THEN [k EXCEPT !.returned = k.socket]
    ELSE LET made == io(k)
         IN  [made EXCEPT !.socket = Len(made.sockets), !.returned = Len(made.sockets)]

disconnectSocket(k) ==
    IF k.socket /= NullSocket
    THEN [k EXCEPT !.sockets[k.socket] = "disconnected", !.socket = NullSocket]
    ELSE k

\* the sockets this module created that are connecting, connected or reconnecting
LiveSockets(k) ==
    {i \in 1..Len(k.sockets) : k.sockets[i] \in {"connecting", "connected", "reconnecting"}}

SockFrame == UNCHANGED <<screen, chatVars, sessionVars, rendering, searchVars, otp>>

\* some caller connects
SockConnectCall ==
    /\ screen = "socket"
    /\ IsConnected(sock) \/ Len(sock.sockets) < MaxSockets
    /\ sock' = connectSocket(sock)
    /\ last' = ComposerEv(IF IsConnected(sock) THEN "connectKept" ELSE "connectNew")
    /\ SockFrame

\* some caller disconnects
SockDisconnectCall ==
    /\ screen = "socket"
    /\ sock' = disconnectSocket(sock)
    /\ last' = ComposerEv("disconnect")
    /\ SockFrame

\* the transport of socket i opens
SockConnected(i) ==
    /\ screen = "socket"
    /\ sock.sockets[i] \in {"connecting", "reconnecting"}
    /\ sock' = [sock EXCEPT !.sockets[i] = "connected"]
    /\ last' = ComposerEv("connected")
    /\ SockFrame

\* the transport of socket i is lost; the client starts reconnecting
SockDropped(i) ==
    /\ screen = "socket"
    /\ sock.sockets[i] = "connected"
    /\ sock' = [sock EXCEPT !.sockets[i] = "reconnecting"]
    /\ last' = ComposerEv("dropped")
    /\ SockFrame

\* reconnectionAttempts are used up: socket i stays closed
SockGaveUp(i) ==
    /\ screen = "socket"
    /\ sock.sockets[i] \in {"connecting", "reconnecting"}
    /\ sock' = [sock EXCEPT !.sockets[i] = "closed"]
    /\ last' = ComposerEv("gaveUp")
    /\ SockFrame

(***************************************************************************)
(* useChatStore called by any client: every operation of the store with    *)
(* arguments from small sets.                                              *)
(***************************************************************************)
StoreLists ==
    {[i \in 1..Len(p) |-> mapApiConversation(p[i], "athens")] : p \in ConvPages}

StoreMessage(c) == [id |-> 1, conversationId |-> c]

StoreFrame ==
    UNCHANGED <<screen, env, list, fetches, detail, msgFetches, hist, composer, sends,
                besideChat>>

\* the operations that take a conversation list
StoreLoad ==
    /\ screen = "store"
    /\ \E conversations \in StoreLists :
          \/ store' = setConversations(store, conversations)
          \/ store' = appendConversations(store, conversations)
          \/ store' = setArchivedConversations(store, conversations)
    /\ last' = ComposerEv("storeOp")
    /\ StoreFrame

\* the operations on the active conversation and the message lists
StoreThread ==
    /\ screen = "store"
    /\ \/ \E id \in ConvIds \cup {NoConversation} : store' = setActiveConversation(store, id)
       \/ \E c \in ConvIds : \E n \in 0..MaxThreadLen :
             store' = setMessages(store, c, [i \in 1..n |-> StoreMessage(c)])
       \/ \E c \in ConvIds :
             /\ Len(Thread(store, c)) < MaxThreadLen
             /\ store' = addMessage(store, StoreMessage(c))
    /\ last' = ComposerEv("storeOp")
    /\ StoreFrame

\* setLoading and setError
StoreFlags ==
    /\ screen = "store"
    /\ \/ \E b \in BOOLEAN : store' = setLoading(store, b)
       \/ \E e \in {NoError, LoadError} : store' = setError(store, e)
    /\ last' = ComposerEv("storeOp")
    /\ StoreFrame

StoreReset ==
    /\ screen = "store"
    /\ store' = reset(store)
    /\ last' = ComposerEv("reset")
    /\ StoreFrame

(***************************************************************************)
(* Initial states and specifications.  A behaviour follows one component;  *)
(* the others stay as they are when nothing has happened to them.          *)
(***************************************************************************)

\* the chat screens are not followed
ChatIdle ==
    /\ env = [navs |-> 0, newestFirst |-> FALSE]
    /\ store = initialState
    /\ list = ListUnmounted
    /\ fetches = NoFetches
    /\ detail = DetailIdle
    /\ msgFetches = NoMsgFetches
    /\ hist = NoHist
    /\ composer = ComposerFresh /\ sends = <<>>

\* the session is not followed: signed in, nothing in flight
SessionIdle == auth = SignedIn /\ dash = DashFresh /\ calls = <<>>

\* no message list is being rendered
RenderIdle == rendering = [messages |-> <<>>, bubbles |-> <<>>]

\* the search box is not followed
SearchIdle == search = SearchUnmounted /\ searches = <<>>

\* the OTP screen is not shown
OtpIdle == otp = OtpUnmounted

\* the socket module is loaded and unused
SockIdle == sock = NoSockets

\* every component but c is idle
IdleBut(c) ==
    /\ c /= "chat" => ChatIdle
    /\ c /= "session" => SessionIdle
    /\ c /= "render" => RenderIdle
    /\ c /= "search" => SearchIdle
    /\ c /= "otp" => OtpIdle
    /\ c /= "socket" => SockIdle

\* the list screen just mounted for some area, its initial load in flight
InitList ==
    /\ screen = "list"
    /\ env = [navs |-> 0, newestFirst |-> FALSE]
    /\ store = initialState
    /\ \E a \in Areas :
         LET r == InitialLoadEffect(ListFresh(a), NoFetches, initialState.conversations)
         IN  list = r.list /\ fetches = r.fetches
    /\ detail = DetailIdle
    /\ msgFetches = NoMsgFetches
    /\ hist = NoHist
    /\ composer = ComposerFresh /\ sends = <<>>
    /\ IdleBut("chat")
    /\ last = [op |-> "mount", hadItems |-> FALSE, dropped |-> FALSE, added |-> FALSE]

NextList ==
    \/ \E a \in Areas : SwitchArea(a)
    \/ ListUnmount
    \/ \E a \in Areas : ListMount(a)
    \/ \E r \in fetches.init : \E result \in ConvResponses(r.area) : InitialLoadOk(r, result)
    \/ \E r \in fetches.init : InitialLoadFail(r)
    \/ LoadMore
    \/ \E i \in 1..Len(fetches.more) :
         \E result \in ConvResponses(fetches.more[i].area) : LoadMoreOk(i, result)
    \/ \E i \in 1..Len(fetches.more) : LoadMoreFail(i)

\* the detail screen just mounted with some highlight target, its initial load in flight
InitDetail ==
    /\ screen = "detail"
    /\ \E b \in BOOLEAN : env = [navs |-> 0, newestFirst |-> b]
    /\ store = initialState
    /\ list = ListUnmounted
    /\ fetches = NoFetches
    /\ \E target \in Targets :
         /\ detail = DetailFresh(target)
         /\ hist = [NoHist EXCEPT !.faithful = TRUE, !.target = target]
    /\ msgFetches = [init |-> "live", older |-> <<>>]
    /\ composer = ComposerFresh /\ sends = <<>>
    /\ IdleBut("chat")
    /\ last = [op |-> "detailMount", hadItems |-> FALSE, dropped |-> FALSE, added |-> FALSE]

NextDetail ==
    \/ \E result \in MsgResponses : DetailInitialOk(result)
    \/ DetailInitialFail
    \/ LoadOlder
    \/ \E i \in 1..Len(msgFetches.older) : \E result \in MsgResponses : LoadOlderOk(i, result)
    \/ \E i \in 1..Len(msgFetches.older) : LoadOlderFail(i)
    \/ HighlightTimer
    \/ DetailUnmount

\* the composer just mounted, its input empty
InitComposer ==
    /\ screen = "composer"
    /\ env = [navs |-> 0, newestFirst |-> FALSE]
    /\ store = initialState
    /\ list = ListUnmounted
    /\ fetches = NoFetches
    /\ detail = DetailIdle
    /\ msgFetches = NoMsgFetches
    /\ hist = NoHist
    /\ composer = ComposerFresh /\ sends = <<>>
    /\ IdleBut("chat")
    /\ last = ComposerEv("composerMount")

NextComposer ==
    \/ \E t \in Texts : ChangeText(t)
    \/ PressSend
    \/ \E i \in 1..Len(sends) : SendOk(i)
    \/ \E i \in 1..Len(sends) : SendFail(i)

\* signed in, the dashboard shown
InitSession ==
    /\ screen = "session"
    /\ IdleBut("session")
    /\ SessionIdle
    /\ last = SessionEv("signedIn", 0, "none")

NextSession ==
    \/ ApiCall
    \/ \E i \in 1..Len(calls) : ApiOk(i)
    \/ \E i \in 1..Len(calls) : \E status \in Statuses : ApiError(i, status)
    \/ \E i \in 1..Len(calls) : ApiCleared(i)
    \/ \E i \in 1..Len(calls) : ApiClearFailed(i)
    \/ PressLogout
    \/ \E outcome \in {"logoutOk", "logoutFailed", "logoutTimedOut"} : LogoutResponded(outcome)
    \/ LogoutCleared
    \/ LogoutClearFailed

SpecSession == InitSession /\ [][NextSession]_vars

\* the list is handed a feed
InitRender ==
    /\ screen = "render"
    /\ IdleBut("render")
    /\ \E feed \in FeedsUpTo(MaxFeedLen) : rendering = [messages |-> feed, bubbles |-> <<>>]
    /\ last = ComposerEv("renderList")

NextRender == RenderItem

SpecRender == InitRender /\ [][NextRender]_vars

\* the list screen just mounted for some area, the search box empty
InitSearch ==
    /\ screen = "search"
    /\ IdleBut("search")
    /\ \E a \in Areas : search = SearchFresh(a)
    /\ searches = <<>>
    /\ last = ComposerEv("searchMount")

NextSearch ==
    \/ \E t \in Texts : ChangeQuery(t)
    \/ \E a \in Areas : SearchSwitchArea(a)
    \/ \E i \in 1..Len(searches) : \E results \in SearchResponses(searches[i]) : SearchOk(i, results)
    \/ \E i \in 1..Len(searches) : SearchFail(i)
    \/ SearchUnmount

SpecSearch == InitSearch /\ [][NextSearch]_vars

\* the OTP screen just mounted, its countdown started
InitOtp ==
    /\ screen = "otp"
    /\ ChatIdle /\ RenderIdle /\ SearchIdle /\ SockIdle
    /\ auth = SignedOut /\ dash = RootNavigator(SignedOut, DashFresh) /\ calls = <<>>
    /\ otp = OtpFresh
    /\ last = ComposerEv("otpMount")

NextOtp ==
    \/ \E k \in 1..Len(otp.intervals) : OtpTick(k)
    \/ PressResend
    \/ ResendOk
    \/ ResendFail
    \/ \E complete \in BOOLEAN : ChangeOtp(complete)
    \/ PressVerify
    \/ \E persisted \in BOOLEAN : VerifyOk(persisted)
    \/ VerifyFail
    \/ OtpUnmount

SpecOtp == InitOtp /\ [][NextOtp]_vars

\* a new store
InitStore ==
    /\ screen = "store"
    /\ IdleBut("store")
    /\ last = ComposerEv("create")

NextStore == StoreLoad \/ StoreThread \/ StoreFlags \/ StoreReset

SpecStore == InitStore /\ [][NextStore]_vars

\* the module just loaded: let socket = null
InitSock ==
    /\ screen = "socket"
    /\ IdleBut("socket")
    /\ sock = NoSockets
    /\ last = ComposerEv("create")

NextSock ==
    \/ SockConnectCall
    \/ SockDisconnectCall
    \/ \E i \in 1..Len(sock.sockets) : SockConnected(i) \/ SockDropped(i) \/ SockGaveUp(i)

SpecSock == InitSock /\ [][NextSock]_vars

Init ==
    \/ InitList \/ InitDetail \/ InitComposer
    \/ InitSession \/ InitRender \/ InitSearch \/ InitOtp \/ InitStore \/ InitSock
Next ==
    \/ NextList \/ NextDetail \/ NextComposer
    \/ NextSession \/ NextRender \/ NextSearch \/ NextOtp \/ NextStore \/ NextSock

SpecList     == InitList /\ [][NextList]_vars
SpecDetail   == InitDetail /\ [][NextDetail]_vars
SpecComposer == InitComposer /\ [][NextComposer]_vars

\* A pending timer fires, and a fetch in flight resolves or rejects.
DetailFairness ==
    /\ WF_vars(HighlightTimer)
    /\ WF_vars(DetailInitialFail \/ \E result \in MsgResponses : DetailInitialOk(result))
    /\ WF_vars(\E i \in 1..Len(msgFetches.older) :
                  LoadOlderFail(i) \/ \E result \in MsgResponses : LoadOlderOk(i, result))

SpecDetailFair == SpecDetail /\ DetailFairness
Spec       == Init /\ [][Next]_vars

(***************************************************************************)
(* Properties.                                                             *)
(***************************************************************************)

\* the detail screen is settled: nothing in flight, no highlight timer pending
DetailQuiet == detail.mounted /\ msgFetches = NoMsgFetches /\ ~detail.timer

\* C1: opened with a highlight target that lies on page k >= 2, every fetch
\* answered faithfully and no scrolling by the user, the resolver has issued
\* exactly k - 1 older-page fetches once the screen is settled, the target's id
\* has been highlighted, and highlightedMessageId is null again after the timer.
C1_ResolverWalksToTargetPage ==
    ( /\ screen = "detail" /\ DetailQuiet
      /\ hist.faithful /\ ~hist.userScrolled
      /\ hist.target.id \in MsgIds /\ PageOf(hist.target.id) >= 2
      /\ hist.target.ts \in {0, TsOf(hist.target.id)} )
    => ( /\ hist.olderFetches = PageOf(hist.target.id) - 1
         /\ hist.highlit = hist.target.id
         /\ detail.highlightedMessageId = 0 )

\* C2: the store's conversations list never holds two items with the same id,
\* whatever pages the server returns.
C2_NoDuplicateConversationIds == ~HasDuplicateIds(store.conversations)

\* C3: the messages list never holds two messages with the same id, whatever
\* pages the server returns.
C3_NoDuplicateMessageIds == ~HasDuplicateIds(detail.messages)

OwnMoreInFlight == \E i \in 1..Len(fetches.more) : fetches.more[i].own

\* C4: an onEndReached event that arrives while a loadMore request of the
\* screen is in flight issues no request and leaves the feed, nextCursor and
\* hasMore as they are.
C4_LoadMoreInFlightIsNoOp ==
    [][ (LoadMore /\ OwnMoreInFlight) =>
            /\ fetches' = fetches
            /\ store' = store
            /\ list'.nextCursor = list.nextCursor
            /\ list'.hasMore = list.hasMore ]_vars

\* C4 witness: an onEndReached event was ignored while a request is in flight
C4_IgnoredWhileInFlight == last.op = "loadMoreIgnored" /\ OwnMoreInFlight

\* C5: at most one older-page fetch is in flight, and none while the initial
\* load of the mounted screen is.
C5_AtMostOneOlderFetch ==
    /\ Len(msgFetches.older) <= 1
    /\ msgFetches.init = "live" => msgFetches.older = <<>>

\* C5 witness: a scroll trigger was ignored while an older-page fetch is in flight
C5_TriggerIgnoredInFlight ==
    last.op = "loadOlderIgnored" /\ Len(msgFetches.older) = 1 /\ detail.loadingOlder

\* C6: once the initial load has landed and hasMore is false, a target that
\* matches no loaded message is no longer pending, nothing is highlighted for
\* it, and no older-page fetch is in flight.
C6_ExhaustedFeedClearsTarget ==
    ( /\ screen = "detail" /\ DetailShown /\ ~detail.hasMore
      /\ HighlightIndex(detail.messages, detail.pendingHighlight) = 0 )
    => ( /\ detail.pendingHighlight = NoTarget
         /\ msgFetches.older = <<>> )

\* C7: a switch of area (in place or by a new mount) drops the cursor state
\* and starts an initial load, and when that load lands the feed is exactly
\* the new area's first page, with that response's nextCursor and hasMore.
C7_SwitchReplacesFeed ==
    [][ /\ \A a \in Areas :
             (SwitchArea(a) \/ ListMount(a)) =>
                 /\ list'.loading /\ list'.nextCursor = NullCursor /\ ~list'.hasMore
                 /\ [area |-> a, cancelled |-> FALSE] \in fetches'.init
        /\ \A r \in fetches.init : \A result \in ConvResponses(r.area) :
             (InitialLoadOk(r, result) /\ ~r.cancelled) =>
                 /\ store'.conversations = result.conversations
                 /\ list'.nextCursor = result.nextCursor
                 /\ list'.hasMore = result.hasMore ]_vars

\* C7 witness: after a switch, an empty first page landed on a feed that held items
C7_EmptyPageAfterSwitch ==
    /\ last.op = "initialOk" /\ last.hadItems /\ env.navs > 0
    /\ Len(store.conversations) = 0

\* the merge as the claim states it: the feed, then the page's items whose id
\* the feed does not hold, in the page's order
Merged(feed, page) ==
    feed \o SelectSeq(page, LAMBDA c : \A j \in 1..Len(feed) : feed[j].id /= c.id)

\* C8: a landed loadMore page leaves the existing items in their order,
\* followed by exactly the page's items whose id is not in the feed, in the
\* server's order; the screen takes the response's hasMore and nextCursor.
C8_AppendMergesPage ==
    [][ \A i \in 1..Len(fetches.more) : \A result \in ConvResponses(fetches.more[i].area) :
          LoadMoreOk(i, result) =>
              /\ store'.conversations = Merged(store.conversations, result.conversations)
              /\ fetches.more[i].own =>
                    /\ list'.hasMore = result.hasMore
                    /\ list'.nextCursor = result.nextCursor ]_vars

\* C8 witness: a landed page added an item to a non-empty feed and had an
\* item left out, and the feed is exhausted
C8_PageWithKnownAndNewItem ==
    /\ last.op = "loadMoreOk" /\ last.hadItems /\ last.dropped /\ last.added
    /\ ~list.hasMore

\* C9: a rejected loadMore / loadOlder leaves the feed, nextCursor, hasMore
\* and error as they are, releases the loading flag and the guard, and the
\* next scroll event issues a request with the same cursor.
C9_PaginationFailureIsSwallowed ==
    [][ /\ \A i \in 1..Len(fetches.more) :
             (LoadMoreFail(i) /\ fetches.more[i].own) =>
                 /\ store' = store
                 /\ list' = [list EXCEPT !.loadingMore = FALSE, !.onEndReachedCalled = FALSE]
                 /\ (list.hasMore /\ list.nextCursor /= NullCursor) =>
                       loadMore(list', fetches').fetches.more =
                           Append(fetches'.more, [area |-> list.area,
                                                  cursor |-> list.nextCursor, own |-> TRUE])
        /\ \A i \in 1..Len(msgFetches.older) :
             (LoadOlderFail(i) /\ detail.mounted) =>
                 /\ detail'.messages = detail.messages
                 /\ detail'.nextCursor = detail.nextCursor
                 /\ detail'.hasMore = detail.hasMore
                 /\ detail'.error = detail.error
                 /\ ~detail'.loadingOlder /\ ~detail'.onEndReachedRef
                 /\ (detail.hasMore /\ detail.nextCursor /= 0) =>
                       loadOlder(detail', msgFetches').msgFetches.older =
                           Append(msgFetches'.older, detail.nextCursor) ]_vars

\* C9 witness: a loadMore was rejected on a feed that can still be paginated
C9_FailedWithMoreToLoad ==
    /\ last.op = "loadMoreFail" /\ last.hadItems
    /\ list.hasMore /\ list.nextCursor /= NullCursor
    /\ ~list.loadingMore

\* C10: a rejected initial load leaves the store's conversations as they
\* are, sets the error and returns loading to false.
C10_FailedInitialKeepsFeed ==
    [][ \A r \in fetches.init :
          (InitialLoadFail(r) /\ ~r.cancelled) =>
              /\ store' = store
              /\ list'.error /= NoError
              /\ ~list'.loading ]_vars

\* C10 witness: an initial load was rejected while the store held a feed
C10_FailedOverLoadedFeed ==
    /\ last.op = "initialFail" /\ last.hadItems
    /\ Len(store.conversations) > 0 /\ list.error /= NoError

\* C11: when sendMessage rejects, the draft is the text that was in the
\* input when send was pressed, white space included.
C11_FailedSendRestoresTypedText ==
    [][ \A i \in 1..Len(sends) : SendFail(i) => composer'.text = sends[i].typed ]_vars

\* C12: once a screen is torn down, no step changes its feed, its cursor and
\* hasMore, or its loading and error flags.
C12_NoMutationAfterTeardown ==
    [][ /\ (screen = "list" /\ ~list.mounted /\ ~list'.mounted) =>
              /\ store'.conversations = store.conversations
              /\ list' = list
        /\ (screen = "detail" /\ ~detail.mounted /\ ~detail'.mounted) =>
              /\ detail'.messages = detail.messages
              /\ detail'.nextCursor = detail.nextCursor
              /\ detail'.hasMore = detail.hasMore
              /\ detail'.loading = detail.loading
              /\ detail'.loadingOlder = detail.loadingOlder
              /\ detail'.error = detail.error ]_vars

Highlighted == detail.mounted /\ detail.highlightedMessageId /= 0

\* C13: highlightedMessageId is one message id or null; while a message is
\* highlighted on the mounted screen the one-shot timer is pending, and the
\* highlight is eventually reset to null.
C13_HighlightIsReset ==
    /\ [](detail.highlightedMessageId \in MsgIds \cup {0})
    /\ [](Highlighted => detail.timer)
    /\ (Highlighted ~> ~Highlighted)

\* C13 witness: the timer has reset a highlight on the mounted screen
C13_TimerResetHighlight ==
    /\ last.op = "highlightTimer" /\ detail.mounted
    /\ detail.scrolledTo /= 0 /\ detail.highlightedMessageId = 0

\* C14: while an older-page fetch that the resolver triggered (one issued by
\* the step in which a fetch completed) is in flight, the pending target
\* stays set.
C14_ResolverKeepsTargetWhileFetching ==
    ( /\ screen = "detail" /\ detail.mounted
      /\ last.op \in {"detailInitialOk", "loadOlderOk", "loadOlderFail"}
      /\ msgFetches.older /= <<>> )
    => detail.pendingHighlight /= NoTarget

\* the match as the claim states it: the first item with the target's id if
\* there is one, else the first item with the target's timestamp (0: none)
Match(messages, target) ==
    LET idHits == {i \in 1..Len(messages) : target.id /= 0 /\ messages[i].id = target.id}
        tsHits == {i \in 1..Len(messages) :
                      target.ts /= 0 /\ messages[i].timestamp = target.ts}
        hits   == IF idHits /= {} THEN idHits ELSE tsHits
    IN  IF hits = {} THEN 0 ELSE CHOOSE i \in hits : \A j \in hits : i <= j

C16_ScrollFetchAbandonsTarget ==
    [][ /\ (LoadOlder /\ last'.op = "loadOlder") => detail'.pendingHighlight = NoTarget
        /\ \A i \in 1..Len(msgFetches.older) : \A result \in MsgResponses :
              (last.op = "loadOlder" /\ detail.mounted /\ LoadOlderOk(i, result)) =>
                  /\ detail'.highlightedMessageId = detail.highlightedMessageId
                  /\ msgFetches'.older = <<>> ]_vars

\* C17: on the mounted screen the pending target eventually becomes null.
C17_TargetIsConsumed == <>(detail.pendingHighlight = NoTarget \/ ~detail.mounted)

\* the new area's initial load has landed on the mounted screen
InitialLanded ==
    /\ list.mounted /\ ~list.loading /\ list.error = NoError
    /\ [area |-> list.area, cancelled |-> FALSE] \notin fetches.init

\* C18: once the selected area's initial load has landed, every item of the
\* feed was returned by a fetch for the selected area.
C18_FeedHoldsSelectedAreaOnly ==
    InitialLanded =>
        \A i \in 1..Len(store.conversations) : store.conversations[i].area = list.area

\* C19: every loadMore request in flight carries a cursor that a response
\* for the request's area returned.
C19_CursorOfRequestedArea ==
    \A i \in 1..Len(fetches.more) : fetches.more[i].cursor \in CursorsOf(fetches.more[i].area)

NewestFirst(messages) ==
    \A i \in 1..(Len(messages) - 1) : messages[i].timestamp >= messages[i + 1].timestamp

\* C20 as stated: with pages sent newest-first and every response the
\* faithful one, the messages list is newest-first overall.
C20_NewestFirstGivenNewestFirstPages ==
    (screen = "detail" /\ hist.faithful /\ env.newestFirst) => NewestFirst(detail.messages)

\* C20 amended: with pages sent oldest-first and every response the faithful
\* one, the messages list is newest-first overall.
C20_NewestFirstGivenOldestFirstPages ==
    (screen = "detail" /\ hist.faithful /\ ~env.newestFirst) => NewestFirst(detail.messages)

\* C20 witness: two pages sent oldest-first have been loaded
C20_TwoOldestFirstPagesLoaded ==
    /\ last.op = "loadOlderOk" /\ hist.faithful /\ ~env.newestFirst
    /\ Len(detail.messages) = 2 * PageLen

\* C21: a landed older page leaves every loaded message at its index: the new
\* list is the previous list followed by exactly the fetched page reversed.
C21_OlderPageIsAppended ==
    [][ \A i \in 1..Len(msgFetches.older) : \A result \in MsgResponses :
          (LoadOlderOk(i, result) /\ detail.mounted) =>
              /\ detail'.messages =
                     detail.messages \o Reverse(WirePage(result.page, env.newestFirst))
              /\ \A k \in 1..Len(detail.messages) :
                     detail'.messages[k] = detail.messages[k] ]_vars

\* C21 witness: the whole history is loaded, the last page by an older-page
\* fetch, whatever the wire order
C21_HistoryLoadedByOlderPages ==
    /\ last.op = "loadOlderOk" /\ detail.mounted /\ env.newestFirst
    /\ Len(detail.messages) = NumMsgs /\ ~detail.loadingOlder

\* the pagination state says the feed is exhausted
ListAtEnd == ~list.hasMore \/ list.nextCursor = NullCursor

DetailAtEnd == ~detail.hasMore \/ detail.nextCursor = 0

\* C22: once a page with hasMore = false or a null cursor has been applied,
\* no step issues a loadMore / loadOlder request or re-opens the pagination
\* state, until an initial load (area switch or re-entry) replaces it.
C22_PaginationStopsAtEnd ==
    [][ /\ ( /\ screen = "list" /\ InitialLanded /\ ListAtEnd
              /\ last'.op \notin {"switchArea", "mount", "initialOk"} )
            => ( /\ Len(fetches'.more) <= Len(fetches.more)
                 /\ list'.mounted => ListAtEnd' )
        /\ (screen = "detail" /\ DetailShown /\ DetailAtEnd)
            => ( /\ Len(msgFetches'.older) <= Len(msgFetches.older)
                 /\ detail'.mounted => DetailAtEnd' ) ]_vars

\* C23: once the message screen is torn down no highlight timer is pending,
\* so none fires, and no step sets a highlight, changes the pending target
\* or issues an older-page fetch.
C23_TeardownCancelsResolver ==
    /\ [](screen = "detail" /\ ~detail.mounted => ~detail.timer)
    /\ [][ (screen = "detail" /\ ~detail.mounted /\ ~detail'.mounted) =>
              /\ ~HighlightTimer
              /\ detail'.highlightedMessageId = detail.highlightedMessageId
              /\ detail'.pendingHighlight = detail.pendingHighlight
              /\ Len(msgFetches'.older) <= Len(msgFetches.older) ]_vars

\* C24: a request rejected with status 401 or 403 reaches its caller with
\* tokenData null, a failure with any other status leaves tokenData as it is,
\* and in both cases the caller receives the response's error.
C24_AuthErrorClearsToken ==
    [][ /\ (screen = "session" /\ last'.op = "apiRejected") =>
              /\ last'.error = "response"
              /\ last'.status \in {401, 403} => auth'.tokenData = NoToken
              /\ last'.status \notin {401, 403} => auth'.tokenData = auth.tokenData
        /\ \A i \in 1..Len(calls) : \A status \in Statuses \ {401, 403} :
              ApiError(i, status) => last'.op = "apiRejected" ]_vars

\* C27: when handleLogout ends, by returning or by throwing, tokenData is
\* null and loggingOut is false, whatever employeeLogout and the removal of
\* the persisted token did.
C27_LogoutEndsSession ==
    [][ (LogoutCleared \/ LogoutClearFailed) =>
            (auth'.tokenData = NoToken /\ ~dash'.loggingOut) ]_vars

\* the media messages a bubble shows: its mediaGroup, or the item alone
Shows(b, messages) ==
    IF b = NullBubble THEN {}
    ELSE IF b.mediaGroup /= {} THEN b.mediaGroup
    ELSE {b.item} \cap {k \in 1..Len(messages) : isMedia(messages[k])}

\* C25: once every item of a feed is rendered, each media message is shown
\* by exactly one bubble, on its own or as a member of one gallery group.
C25_EveryMediaMessageShownOnce ==
    (screen = "render" /\ Len(rendering.bubbles) = Len(rendering.messages)) =>
        \A k \in 1..Len(rendering.messages) :
            isMedia(rendering.messages[k]) =>
                Cardinality({i \in 1..Len(rendering.bubbles) :
                                k \in Shows(rendering.bubbles[i], rendering.messages)}) = 1

\* a search of the current query and area is in flight
LatestSearchInFlight == \E i \in 1..Len(searches) : ~searches[i].cancelled

\* C26: a response or rejection of a superseded search changes nothing; with
\* an empty query searchResults is empty; searchLoading is false once no
\* search of the latest query is in flight; and the results shown then are
\* those of the latest query and area.
C26_SearchFollowsLatestQuery ==
    /\ [](trim(search.searchQuery) = <<>> =>
             (search.searchResults = <<>> /\ ~search.searchLoading))
    /\ [](~LatestSearchInFlight => ~search.searchLoading)
    /\ []((search.mounted /\ ~search.searchLoading /\ search.searchError = NoError) =>
             \A k \in 1..Len(search.searchResults) :
                 /\ search.searchResults[k].area = search.area
                 /\ search.searchResults[k].query = trim(search.searchQuery))
    /\ [][ \A i \in 1..Len(searches) :
              searches[i].cancelled =>
                  /\ SearchFail(i) => search' = search
                  /\ \A results \in SearchResponses(searches[i]) :
                        SearchOk(i, results) => search' = search ]_vars

\* C26 witness: the response of a superseded search arrived after the latest
\* query's results were applied, and those results are still there
C26_StaleResponseAfterLatest ==
    /\ last.op = "searchStale" /\ search.mounted
    /\ ~search.searchLoading /\ search.searchError = NoError
    /\ Len(search.searchResults) > 0
    /\ search.searchResults[1].query = trim(search.searchQuery)

\* C28: resendCooldown stays within 0..30; a resendOtp request is issued
\* only at cooldown 0 with no resend in flight; a resend that succeeded on
\* the shown screen restarts the countdown at 30 and one that failed leaves
\* it at 0; at most one interval is active, and none once the screen is gone.
C28_ResendCooldown ==
    /\ [](otp.resendCooldown \in 0..RESEND_COOLDOWN_SEC)
    /\ [](Len(otp.intervals) <= 1)
    /\ [](screen = "otp" /\ ~otp.mounted => otp.intervals = <<>>)
    /\ [][ /\ (~otp.resending /\ otp'.resending) =>
                  (otp.resendCooldown = 0 /\ ~otp.resendLoading)
           /\ (ResendOk /\ otp.mounted) =>
                  (otp'.resendCooldown = RESEND_COOLDOWN_SEC /\ otp'.timerRef = "active")
           /\ ResendFail =>
                  (otp'.resendCooldown = 0 /\ otp'.intervals = otp.intervals) ]_vars

\* the data fields a store can hold
DataFields ==
    {"conversations", "archivedConversations", "activeConversationId", "messages",
     "isLoading", "error"}

\* C29: after reset() every data field of the store, archivedConversations
\* included, has the value it has in a new store.
C29_ResetRestoresInitialState ==
    [][ StoreReset =>
          \A k \in DataFields :
             /\ k \in DOMAIN store' <=> k \in DOMAIN initialState
             /\ k \in DOMAIN initialState => store'[k] = initialState[k] ]_vars

\* C30: at most one socket this module created is live (connecting, connected
\* or reconnecting); connectSocket returns the module's socket without
\* creating one when that socket is connected; after disconnectSocket
\* getSocket() is null.
C30_SocketSingleton ==
    /\ [](Cardinality(LiveSockets(sock)) <= 1)
    /\ [][ /\ (SockConnectCall /\ IsConnected(sock))
                 => (sock'.returned = sock.socket /\ sock'.sockets = sock.sockets)
           /\ SockDisconnectCall => getSocket(sock') = NullSocket ]_vars
====
